---- MODULE Spec2Model ----
(***************************************************************************)
(* The authentication core of flash-feather-starter: the token codec       *)
(* (PyJWT calls in AuthService), AuthService.create_tokens /               *)
(* validate_and_refresh_token / refresh_access_token, the request          *)
(* state machine AuthMiddleware.dispatch, and the /api/auth endpoints.     *)
(*                                                                         *)
(* Time is counted in ticks of 1/TicksPerSecond second: datetime.now() has *)
(* sub-second resolution while the exp claim of a token is a whole number  *)
(* of seconds.                                                             *)
(*                                                                         *)
(* Spec: any client, one request at a time.  SessionSpec: a client that     *)
(* keeps the cookies it is sent.  ConcSpec: NumProcs requests in flight     *)
(* together, dispatch taken step by step.                                   *)
(***************************************************************************)
EXTENDS Integers, Sequences, FiniteSets, TLC

VARIABLES users, now, req, resp, jar, stale, procs

vars == <<users, now, req, resp, jar, stale, procs>>

\* ------------------------------------------------------------------ bounds
TicksPerSecond == 2
MaxTime == 2
SessionMaxTime == 8
NumProcs == 2
ConcMaxTime == 2

\* ------------------------------------------------- configuration constants
\* os.getenv("ACCESS_TOKEN_EXPIRE_SECONDS", "900") and
\* os.getenv("REFRESH_TOKEN_EXPIRE_SECONDS", "604800"), here configured to
\* 1 and 2 seconds.
ACCESS_TOKEN_EXPIRE_SECONDS == 1
REFRESH_TOKEN_EXPIRE_SECONDS == 2
ACCESS_TOKEN_EXPIRE == ACCESS_TOKEN_EXPIRE_SECONDS
REFRESH_TOKEN_EXPIRE == REFRESH_TOKEN_EXPIRE_SECONDS

JWT_SECRET == "default_secret_change_in_production"
OtherSecret == "some_other_secret"

\* ------------------------------------------------------------------ tokens
\* A cookie or header value: absent (None), the empty string, a string that
\* is no JWT, or an HS256 JWT with its payload and the key that signed it.
\* sub = "<missing>" is a payload without a "sub" claim.
NoToken == [t |-> "none", sub |-> "", exp |-> 0, key |-> ""]
EmptyTok == [t |-> "empty", sub |-> "", exp |-> 0, key |-> ""]
JunkTok == [t |-> "junk", sub |-> "", exp |-> 0, key |-> ""]
MissingSub == "<missing>"

Jwt(sub, exp, key) == [t |-> "jwt", sub |-> sub, exp |-> exp, key |-> key]

\* Python truthiness of request.cookies.get(...) / a token string.
Truthy(tok) == tok.t \notin {"none", "empty"}

\* str(user_id)
str(n) == CASE n = 1 -> "1" [] n = 2 -> "2" [] n = 3 -> "3" [] OTHER -> "0"

\* int(payload["sub"]): a KeyError when the claim is missing, a ValueError
\* when the string is no integer literal; int("01") is 1.
IntLiterals == ("1" :> 1) @@ ("2" :> 2) @@ ("3" :> 3) @@ ("01" :> 1)

int(s) ==
    IF s = MissingSub THEN [exc |-> "KeyError", val |-> 0]
    ELSE IF s \in DOMAIN IntLiterals THEN [exc |-> "", val |-> IntLiterals[s]]
    ELSE [exc |-> "ValueError", val |-> 0]

\* jwt.encode({"sub": sub, "exp": datetime}, key): the datetime is stored as
\* whole seconds since the epoch (timegm(utctimetuple())), dropping the
\* fraction of a second.
jwt_encode(sub, expTick, key) == Jwt(sub, expTick \div TicksPerSecond, key)

\* jwt.decode that still accepts a token in the instant of its expiry
\* (exp < now for exp <= now).
jwt_decode_late(tok, key, t) ==
    IF tok.t # "jwt" THEN [r |-> "InvalidTokenError", sub |-> ""]
    ELSE IF tok.key # key THEN [r |-> "InvalidTokenError", sub |-> ""]
    ELSE IF tok.exp * TicksPerSecond < t
         THEN [r |-> "ExpiredSignatureError", sub |-> ""]
    ELSE [r |-> "ok", sub |-> tok.sub]

\* jwt.decode with the expiry left unverified (options verify_exp = False).
jwt_decode_no_exp(tok, key, t) ==
    IF tok.t # "jwt" THEN [r |-> "InvalidTokenError", sub |-> ""]
    ELSE IF tok.key # key THEN [r |-> "InvalidTokenError", sub |-> ""]
    ELSE [r |-> "ok", sub |-> tok.sub]

\* jwt.decode with the signature left unverified (verify_signature = False).
jwt_decode_unverified(tok, key, t) ==
    IF tok.t # "jwt" THEN [r |-> "InvalidTokenError", sub |-> ""]
    ELSE IF tok.exp * TicksPerSecond <= t
         THEN [r |-> "ExpiredSignatureError", sub |-> ""]
    ELSE [r |-> "ok", sub |-> tok.sub]

\* jwt.decode(token, key, algorithms=["HS256"]): the signature is verified
\* first, then the exp claim (expired when exp <= now).
jwt_decode(tok, key, t) ==
    IF tok.t # "jwt" THEN [r |-> "InvalidTokenError", sub |-> ""]
    ELSE IF tok.key # key THEN [r |-> "InvalidTokenError", sub |-> ""]
    ELSE IF tok.exp * TicksPerSecond <= t
         THEN [r |-> "ExpiredSignatureError", sub |-> ""]
    ELSE [r |-> "ok", sub |-> tok.sub]

\* create_tokens giving the refresh token the access token's lifetime.
create_tokens_same_ttl(user_id, t) ==
    [access_token |-> jwt_encode(str(user_id),
                        t + ACCESS_TOKEN_EXPIRE_SECONDS * TicksPerSecond, JWT_SECRET),
     refresh_token |-> jwt_encode(str(user_id),
                        t + ACCESS_TOKEN_EXPIRE_SECONDS * TicksPerSecond, JWT_SECRET)]

\* AuthService.create_tokens
create_tokens(user_id, t) ==
    [access_token |-> jwt_encode(str(user_id),
                        t + ACCESS_TOKEN_EXPIRE_SECONDS * TicksPerSecond, JWT_SECRET),
     refresh_token |-> jwt_encode(str(user_id),
                        t + REFRESH_TOKEN_EXPIRE_SECONDS * TicksPerSecond, JWT_SECRET)]

\* ------------------------------------------------------------- user store
NoPicture == ""
NoHash == [scheme |-> "", of |-> ""]

\* pwd_context.hash / pwd_context.verify (bcrypt). verify on a stored value
\* that is no hash of a known scheme (the "" of a Google user) raises
\* passlib's UnknownHashError.
hash(password) == [scheme |-> "bcrypt", of |-> password]

verify(password, hashed) ==
    IF hashed.scheme # "bcrypt" THEN "UnknownHashError"
    ELSE IF hashed.of = password THEN "True" ELSE "False"

User(id, name, email, hashed, provider, picture) ==
    [id |-> id, name |-> name, email |-> email, hashed_password |-> hashed,
     auth_provider |-> provider, profile_picture |-> picture]

UserIds(us) == {us[i].id : i \in 1..Len(us)}

\* A lookup that takes the subject for a user without consulting the table.
find_by_id_unchecked(us, id) == id

\* db.query(User).filter(User.id == user_id).first(): 0 stands for None.
find_by_id(us, id) == IF id \in UserIds(us) THEN id ELSE 0

\* db.query(User).filter(User.email == email).first(): 0 stands for None.
find_by_email(us, email) ==
    LET hits == {i \in 1..Len(us) : us[i].email = email}
    IN IF hits = {} THEN 0 ELSE us[CHOOSE i \in hits : \A j \in hits : i <= j].id

\* db.add(user); db.commit(): the unique indexes on name and email make the
\* INSERT fail with an IntegrityError.
insert_ok(us, name, email) ==
    \A i \in 1..Len(us) : us[i].name # name /\ us[i].email # email


\* ----------------------------------------------------------- AuthService
\* What a service call gives back: an escaping exception (exc # ""), None
\* (some = FALSE), or a dict with "user" and, after a refresh, the new pair.
NoneResult ==
    [exc |-> "", some |-> FALSE, user |-> 0,
     new_access_token |-> NoToken, new_refresh_token |-> NoToken]

Raised(e) == [NoneResult EXCEPT !.exc = e]

\* refresh_access_token giving back a new access token only.
refresh_access_token_access_only(refresh_token, us, t) ==
    LET payload == jwt_decode(refresh_token, JWT_SECRET, t)
        user_id == int(payload.sub)
        user == find_by_id(us, user_id.val)
        new_tokens == create_tokens(user_id.val, t)
    IN IF payload.r # "ok" THEN NoneResult
       ELSE IF user_id.exc # "" THEN Raised(user_id.exc)
       ELSE IF user # 0
            THEN [exc |-> "", some |-> TRUE, user |-> user,
                  new_access_token |-> new_tokens.access_token,
                  new_refresh_token |-> NoToken]
       ELSE NoneResult

\* refresh_access_token giving back the refresh token it was given.
refresh_access_token_no_rotation(refresh_token, us, t) ==
    LET payload == jwt_decode(refresh_token, JWT_SECRET, t)
        user_id == int(payload.sub)
        user == find_by_id(us, user_id.val)
        new_tokens == create_tokens(user_id.val, t)
    IN IF payload.r # "ok" THEN NoneResult
       ELSE IF user_id.exc # "" THEN Raised(user_id.exc)
       ELSE IF user # 0
            THEN [exc |-> "", some |-> TRUE, user |-> user,
                  new_access_token |-> new_tokens.access_token,
                  new_refresh_token |-> refresh_token]
       ELSE NoneResult

\* AuthService.refresh_access_token
refresh_access_token(refresh_token, us, t) ==
    LET payload == jwt_decode(refresh_token, JWT_SECRET, t)
        user_id == int(payload.sub)
        user == find_by_id(us, user_id.val)
        new_tokens == create_tokens(user_id.val, t)
    IN IF payload.r # "ok" THEN NoneResult
       ELSE IF user_id.exc # "" THEN Raised(user_id.exc)
       ELSE IF user # 0
            THEN [exc |-> "", some |-> TRUE, user |-> user,
                  new_access_token |-> new_tokens.access_token,
                  new_refresh_token |-> new_tokens.refresh_token]
       ELSE NoneResult

\* validate_and_refresh_token refreshing whatever the source of the access
\* token (from_cookie ignored).
validate_and_refresh_token_any_source(access_token, refresh_token, from_cookie, us, t) ==
    LET payload == jwt_decode(access_token, JWT_SECRET, t)
        user_id == int(payload.sub)
        user == find_by_id(us, user_id.val)
    IN IF payload.r = "ok"
       THEN IF user_id.exc # "" THEN Raised(user_id.exc)
            ELSE IF user # 0 THEN [NoneResult EXCEPT !.some = TRUE, !.user = user]
            ELSE NoneResult
       ELSE IF payload.r = "ExpiredSignatureError"
       THEN IF Truthy(refresh_token)
            THEN refresh_access_token(refresh_token, us, t)
            ELSE NoneResult
       ELSE NoneResult

\* validate_and_refresh_token turning to the refresh token on every failed
\* validation of a cookie's access token, not only on its expiry.
validate_and_refresh_token_on_any_failure(access_token, refresh_token, from_cookie, us, t) ==
    LET payload == jwt_decode(access_token, JWT_SECRET, t)
        user_id == int(payload.sub)
        user == find_by_id(us, user_id.val)
    IN IF payload.r = "ok" /\ user_id.exc # "" THEN Raised(user_id.exc)
       ELSE IF payload.r = "ok" /\ user # 0
       THEN [NoneResult EXCEPT !.some = TRUE, !.user = user]
       ELSE IF from_cookie /\ Truthy(refresh_token)
       THEN refresh_access_token(refresh_token, us, t)
       ELSE NoneResult

\* AuthService.validate_and_refresh_token
validate_and_refresh_token(access_token, refresh_token, from_cookie, us, t) ==
    LET payload == jwt_decode(access_token, JWT_SECRET, t)
        user_id == int(payload.sub)
        user == find_by_id(us, user_id.val)
    IN IF payload.r = "ok"
       THEN IF user_id.exc # "" THEN Raised(user_id.exc)
            ELSE IF user # 0 THEN [NoneResult EXCEPT !.some = TRUE, !.user = user]
            ELSE NoneResult
       ELSE IF payload.r = "ExpiredSignatureError"
       THEN IF from_cookie /\ Truthy(refresh_token)
            THEN refresh_access_token(refresh_token, us, t)
            ELSE NoneResult
       ELSE NoneResult

\* --------------------------------------------------------- AuthMiddleware
\* An Authorization header: absent, or "<scheme> <token>".
NoHeader == [scheme |-> "", tok |-> NoToken]
Bearer(tok) == [scheme |-> "Bearer", tok |-> tok]
Basic(tok) == [scheme |-> "Basic", tok |-> tok]

\* AuthMiddleware.get_header_token
get_header_token(rq) ==
    IF rq.authorization.scheme = "Bearer" THEN rq.authorization.tok ELSE EmptyTok

Cookie(name, value, max_age, by) ==
    [name |-> name, value |-> value, max_age |-> max_age, by |-> by]

\* set_auth_cookies setting the new access token only: the client keeps the
\* refresh token it has.
set_auth_cookies_access_only(auth_data) ==
    IF Truthy(auth_data.new_access_token)
    THEN <<Cookie("access_token", auth_data.new_access_token,
                  ACCESS_TOKEN_EXPIRE_SECONDS, "middleware")>>
    ELSE <<>>

\* AuthMiddleware.set_auth_cookies: the Set-Cookie headers it appends.
set_auth_cookies(auth_data) ==
    (IF Truthy(auth_data.new_access_token)
     THEN <<Cookie("access_token", auth_data.new_access_token,
                   ACCESS_TOKEN_EXPIRE_SECONDS, "middleware")>>
     ELSE <<>>)
    \o
    (IF Truthy(auth_data.new_refresh_token)
     THEN <<Cookie("refresh_token", auth_data.new_refresh_token,
                   REFRESH_TOKEN_EXPIRE_SECONDS, "middleware")>>
     ELSE <<>>)

\* request.state.user: never assigned (the logout bypass), None, or a user.
Unset == 0 - 1

\* dispatch turning to the refresh cookie first, whatever the access token.
authenticate_refresh_first(access_token, refresh_token, from_cookie, us, t) ==
    IF Truthy(refresh_token)
    THEN refresh_access_token(refresh_token, us, t)
    ELSE IF Truthy(access_token)
    THEN validate_and_refresh_token(access_token, refresh_token, from_cookie, us, t)
    ELSE NoneResult

\* AuthMiddleware.dispatch, its choice of service call: validate the access
\* token when there is one, else refresh when there is a refresh cookie.
authenticate(access_token, refresh_token, from_cookie, us, t) ==
    IF Truthy(access_token)
    THEN validate_and_refresh_token(access_token, refresh_token, from_cookie, us, t)
    ELSE IF Truthy(refresh_token)
    THEN refresh_access_token(refresh_token, us, t)
    ELSE NoneResult

\* request.state.user once the service call has returned user_data.
state_user_of(user_data) == IF user_data.some THEN user_data.user ELSE 0

\* -------------------------------------------------------------- endpoints
\* What a route handler gives back: an exception that is no HTTPException
\* (exc # "", the user store rolled back), or a status, the Set-Cookie
\* headers of its response, the user in the response body (0: none) and the
\* user store after it.
HandlerResult(status, cookies, body_user, us) ==
    [exc |-> "", status |-> status, cookies |-> cookies,
     body_user |-> body_user, users |-> us]

HandlerRaised(e, us) ==
    [exc |-> e, status |-> 500, cookies |-> <<>>, body_user |-> 0, users |-> us]

\* The two response.set_cookie calls of register, login and google_callback.
token_cookies(tokens) ==
    <<Cookie("access_token", tokens.access_token, ACCESS_TOKEN_EXPIRE, "handler"),
      Cookie("refresh_token", tokens.refresh_token, REFRESH_TOKEN_EXPIRE, "handler")>>

\* GET /api/auth/me
get_current_user(state_user, us) ==
    IF state_user = Unset \/ state_user = 0
    THEN HandlerResult(401, <<>>, 0, us)
    ELSE HandlerResult(200, <<>>, state_user, us)

\* register without its lookup of the email.
register_no_email_check(user_data, us, t) ==
    LET id == Len(us) + 1
        user == User(id, user_data.name, user_data.email,
                     hash(user_data.password), "local", NoPicture)
    IN IF ~insert_ok(us, user_data.name, user_data.email)
       THEN HandlerRaised("IntegrityError", us)
       ELSE HandlerResult(200, token_cookies(create_tokens(id, t)), id,
                          Append(us, user))

\* POST /api/auth/register
register(user_data, us, t) ==
    LET id == Len(us) + 1
        user == User(id, user_data.name, user_data.email,
                     hash(user_data.password), "local", NoPicture)
    IN IF find_by_email(us, user_data.email) # 0
       THEN HandlerResult(400, <<>>, 0, us)
       ELSE IF ~insert_ok(us, user_data.name, user_data.email)
       THEN HandlerRaised("IntegrityError", us)
       ELSE HandlerResult(200, token_cookies(create_tokens(id, t)), id,
                          Append(us, user))

\* POST /api/auth/login
login(login_data, us, t) ==
    LET user == find_by_email(us, login_data.email)
        verified == verify(login_data.password, us[user].hashed_password)
    IN IF user = 0 THEN HandlerResult(401, <<>>, 0, us)
       ELSE IF verified = "UnknownHashError" THEN HandlerRaised(verified, us)
       ELSE IF verified = "False" THEN HandlerResult(401, <<>>, 0, us)
       ELSE HandlerResult(200, token_cookies(create_tokens(user, t)), user, us)

\* GET /api/auth/google/callback; user_info.ok = FALSE is a failed exchange
\* with the provider (GoogleAuthService.handle_callback raises).
google_callback(user_info, us, t) ==
    LET found == find_by_email(us, user_info.email)
        id == Len(us) + 1
        created == Append(us, User(id, user_info.name, user_info.email, NoHash,
                                   "google", user_info.picture))
        updated == IF user_info.picture # NoPicture
                      /\ us[found].profile_picture # user_info.picture
                   THEN [us EXCEPT ![found].profile_picture = user_info.picture]
                   ELSE us
    IN IF ~user_info.ok THEN HandlerResult(400, <<>>, 0, us)
       ELSE IF found = 0
       THEN IF insert_ok(us, user_info.name, user_info.email)
            THEN HandlerResult(302, token_cookies(create_tokens(id, t)), 0, created)
            ELSE HandlerResult(400, <<>>, 0, us)
       ELSE HandlerResult(302, token_cookies(create_tokens(found, t)), 0, updated)

\* POST /api/auth/logout: response.delete_cookie sets the cookie to "" with
\* max-age 0.
logout(us) ==
    HandlerResult(200,
        <<Cookie("access_token", EmptyTok, 0, "handler"),
          Cookie("refresh_token", EmptyTok, 0, "handler")>>, 0, us)

\* GET /login (main_web.login_page)
login_page(state_user, us) ==
    IF state_user # Unset /\ state_user # 0
    THEN HandlerResult(302, <<>>, 0, us)
    ELSE HandlerResult(200, <<>>, 0, us)

\* The router: the handler of the request's path.
call_next(rq, state_user, us, t) ==
    CASE rq.path = "/api/auth/me" -> get_current_user(state_user, us)
      [] rq.path = "/api/auth/register" -> register(rq.body, us, t)
      [] rq.path = "/api/auth/login" -> login(rq.body, us, t)
      [] rq.path = "/api/auth/google/callback" -> google_callback(rq.body, us, t)
      [] rq.path = "/api/auth/logout" -> logout(us)
      [] OTHER -> login_page(state_user, us)

\* ------------------------------------------------------ request / response
NoBody == [name |-> "", email |-> "", password |-> "", picture |-> NoPicture,
           ok |-> TRUE]

Request(path, access_cookie, authorization, refresh_cookie, body) ==
    [path |-> path, access_cookie |-> access_cookie,
     authorization |-> authorization, refresh_cookie |-> refresh_cookie,
     body |-> body]

Idle == Request("", NoToken, NoHeader, NoToken, NoBody)

\* The outcome of a request: the status and Set-Cookie headers the client
\* gets; exc, the exception that escaped AuthMiddleware.dispatch ("" when
\* none); handler_calls, how often call_next ran; state_user, the identity
\* the handler saw; renewed, whether dispatch took its renewal branch;
\* store, the user records when the request arrived.
Response(status, cookies, exc, handler_calls, state_user, body_user, renewed) ==
    [status |-> status, cookies |-> cookies, exc |-> exc,
     handler_calls |-> handler_calls, state_user |-> state_user,
     body_user |-> body_user, renewed |-> renewed, store |-> <<>>]

NoResponse == Response(0, <<>>, "", 0, Unset, 0, FALSE)

\* AuthMiddleware.dispatch from its call of call_next on, h being what the
\* handler gave back: an exception out of call_next leaves before
\* set_auth_cookies, and the client gets the server's plain 500 response.
respond(user_data, state_user, h) ==
    IF h.exc # ""
    THEN [resp |-> Response(500, <<>>, h.exc, 1, state_user, 0, FALSE),
          users |-> h.users]
    ELSE IF user_data.some /\ Truthy(user_data.new_access_token)
    THEN [resp |-> Response(h.status, h.cookies \o set_auth_cookies(user_data),
                            "", 1, state_user, h.body_user, TRUE),
          users |-> h.users]
    ELSE [resp |-> Response(h.status, h.cookies, "", 1, state_user, h.body_user,
                            FALSE),
          users |-> h.users]

\* AuthMiddleware.dispatch once the service call has returned user_data (or
\* raised: user_data.exc # "", which leaves dispatch before call_next).
proceed(rq, user_data, us, t) ==
    IF user_data.exc # ""
    THEN [resp |-> Response(500, <<>>, user_data.exc, 0, 0, 0, FALSE), users |-> us]
    ELSE respond(user_data, state_user_of(user_data),
                 call_next(rq, state_user_of(user_data), us, t))

\* dispatch without the bypass of the logout route.
dispatch_no_bypass(rq, us, t) ==
    proceed(rq,
            authenticate(IF Truthy(rq.access_cookie) THEN rq.access_cookie
                         ELSE get_header_token(rq),
                         rq.refresh_cookie, Truthy(rq.access_cookie), us, t),
            us, t)

\* dispatch taking the access token from the header first, else the cookie.
dispatch_header_first(rq, us, t) ==
    IF rq.path = "/api/auth/logout"
    THEN respond(NoneResult, Unset, call_next(rq, Unset, us, t))
    ELSE proceed(rq,
                 authenticate(IF Truthy(get_header_token(rq)) THEN get_header_token(rq)
                              ELSE rq.access_cookie,
                              rq.refresh_cookie, Truthy(rq.access_cookie), us, t),
                 us, t)

\* AuthMiddleware.dispatch
dispatch(rq, us, t) ==
    IF rq.path = "/api/auth/logout"
    THEN respond(NoneResult, Unset, call_next(rq, Unset, us, t))
    ELSE proceed(rq,
                 authenticate(IF Truthy(rq.access_cookie) THEN rq.access_cookie
                              ELSE get_header_token(rq),
                              rq.refresh_cookie, Truthy(rq.access_cookie), us, t),
                 us, t)

\* ----------------------------------------------------------------- clients
\* What a client may put in a request. A token's expiry is the current
\* second (the latest expiry of an expired token) or the next (the earliest
\* of an unexpired one); subjects name the first user, the second, no
\* integer, or are missing.
Names == {"a", "b"}
Emails == {"a@x.com", "b@x.com"}
Passwords == {"p", "q"}
Subjects == {"1", "2", "x", MissingSub}

NowSec(t) == t \div TicksPerSecond

Expiries(t) == {NowSec(t), NowSec(t) + 1}

SignedTokens(t) == {Jwt(s, e, JWT_SECRET) : s \in Subjects, e \in Expiries(t)}

ForgedTokens(t) == {Jwt(s, e, OtherSecret) : s \in {"1", "x"}, e \in Expiries(t)}

AccessCookies(t) == {NoToken, EmptyTok, JunkTok} \cup ForgedTokens(t) \cup SignedTokens(t)

RefreshCookies(t) == {NoToken, JunkTok} \cup ForgedTokens(t) \cup SignedTokens(t)

Headers(t) ==
    {NoHeader, Basic(Jwt("1", NowSec(t) + 1, JWT_SECRET)),
     Bearer(Jwt("1", NowSec(t), JWT_SECRET)),
     Bearer(Jwt("1", NowSec(t) + 1, JWT_SECRET)),
     Bearer(Jwt("1", NowSec(t) + 1, OtherSecret))}

RegisterBody(n, e) == [NoBody EXCEPT !.name = n, !.email = e, !.password = "p"]

RegisterBodies ==
    {RegisterBody("a", "a@x.com"), RegisterBody("b", "b@x.com"),
     RegisterBody("a", "b@x.com")}

LoginBodies ==
    {[NoBody EXCEPT !.email = e, !.password = p] : e \in Emails, p \in Passwords}

\* The one Google account of the model, and a failed exchange.
GoogleBodies ==
    {[NoBody EXCEPT !.name = "b", !.email = "b@x.com", !.picture = "pic"],
     [NoBody EXCEPT !.ok = FALSE]}

\* The cookie jar of a client that keeps what the server sets: the two
\* cookies, and for the pair in it the time it was set (at), the operation
\* that issued it (by: the path, or "refresh" for the middleware) and the user
\* it was issued to (0 when the response names none); since is the time of the
\* login, registration or OAuth callback the session began with. stale is the
\* refresh token that the last renewal used and replaced.
NoJar ==
    [access_token |-> NoToken, refresh_token |-> NoToken, at |-> 0, by |-> "",
     user |-> 0, since |-> 0]

\* ------------------------------------------------------ requests in flight
\* Requests handled at the same time, each by its own run of
\* AuthMiddleware.dispatch. A run is at pc: "idle" (none), "decode_access" and
\* "lookup_access" (validate_and_refresh_token), "decode_refresh",
\* "lookup_refresh" and "create_tokens" (refresh_access_token), "call_next"
\* (dispatch from the service call's return on) or "done" (response ready).
\* t0 and store are the time and the user records when the request arrived,
\* concurrent whether another request was in flight during this one.
Procs == 1..NumProcs

IdleProc ==
    [pc |-> "idle", rq |-> Idle, t0 |-> 0, store |-> <<>>, concurrent |-> FALSE,
     user_id |-> 0, user_data |-> NoneResult, out |-> NoResponse]

InFlight(pr) == pr.pc \notin {"idle", "done"}

\* dispatch up to its choice of service call.
Arrived(rq, us, t, concurrent) ==
    [IdleProc EXCEPT
        !.pc = IF rq.path = "/api/auth/logout" THEN "call_next"
               ELSE IF Truthy(rq.access_cookie) \/ Truthy(get_header_token(rq))
               THEN "decode_access"
               ELSE IF Truthy(rq.refresh_cookie) THEN "decode_refresh"
               ELSE "call_next",
        !.rq = rq, !.t0 = t, !.store = us, !.concurrent = concurrent]

\* The service call ends with user_data (None, a dict, or an exception).
Returned(pr, user_data) == [pr EXCEPT !.pc = "call_next", !.user_data = user_data]

\* validate_and_refresh_token: jwt.decode of the access token and
\* int(payload["sub"]).
decode_access(pr, t) ==
    LET access_token == IF Truthy(pr.rq.access_cookie) THEN pr.rq.access_cookie
                        ELSE get_header_token(pr.rq)
        payload == jwt_decode(access_token, JWT_SECRET, t)
        user_id == int(payload.sub)
    IN IF payload.r = "ok"
       THEN IF user_id.exc # "" THEN Returned(pr, Raised(user_id.exc))
            ELSE [pr EXCEPT !.pc = "lookup_access", !.user_id = user_id.val]
       ELSE IF payload.r = "ExpiredSignatureError"
               /\ Truthy(pr.rq.access_cookie) /\ Truthy(pr.rq.refresh_cookie)
       THEN [pr EXCEPT !.pc = "decode_refresh"]
       ELSE Returned(pr, NoneResult)

\* validate_and_refresh_token: the query of the user and the return.
lookup_access(pr, us) ==
    IF find_by_id(us, pr.user_id) # 0
    THEN Returned(pr, [NoneResult EXCEPT !.some = TRUE,
                                         !.user = find_by_id(us, pr.user_id)])
    ELSE Returned(pr, NoneResult)

\* A refresh token that can be used once: refused when another request in
\* flight has already got its new pair from the same token.
decode_refresh_single_use(ps, p, t) ==
    IF \E q \in DOMAIN ps :
          /\ q # p
          /\ ps[q].rq.refresh_cookie = ps[p].rq.refresh_cookie
          /\ Truthy(ps[q].user_data.new_refresh_token)
    THEN Returned(ps[p], NoneResult)
    ELSE IF jwt_decode(ps[p].rq.refresh_cookie, JWT_SECRET, t).r # "ok"
    THEN Returned(ps[p], NoneResult)
    ELSE IF int(jwt_decode(ps[p].rq.refresh_cookie, JWT_SECRET, t).sub).exc # ""
    THEN Returned(ps[p],
            Raised(int(jwt_decode(ps[p].rq.refresh_cookie, JWT_SECRET, t).sub).exc))
    ELSE [ps[p] EXCEPT !.pc = "lookup_refresh",
            !.user_id = int(jwt_decode(ps[p].rq.refresh_cookie, JWT_SECRET, t).sub).val]

\* refresh_access_token, by the request p of the requests ps: jwt.decode of
\* the refresh token and int(payload["sub"]).
decode_refresh(ps, p, t) ==
    LET payload == jwt_decode(ps[p].rq.refresh_cookie, JWT_SECRET, t)
        user_id == int(payload.sub)
    IN IF payload.r # "ok" THEN Returned(ps[p], NoneResult)
       ELSE IF user_id.exc # "" THEN Returned(ps[p], Raised(user_id.exc))
       ELSE [ps[p] EXCEPT !.pc = "lookup_refresh", !.user_id = user_id.val]

\* refresh_access_token: the query of the user.
lookup_refresh(pr, us) ==
    IF find_by_id(us, pr.user_id) # 0
    THEN [pr EXCEPT !.pc = "create_tokens"]
    ELSE Returned(pr, NoneResult)

\* refresh_access_token: create_tokens and the return.
issue_tokens(pr, t) ==
    Returned(pr, [exc |-> "", some |-> TRUE, user |-> pr.user_id,
                  new_access_token |-> create_tokens(pr.user_id, t).access_token,
                  new_refresh_token |-> create_tokens(pr.user_id, t).refresh_token])

\* ------------------------------------------------------------------ actions
Init ==
    /\ users = <<>>
    /\ now = 0
    /\ req = Idle
    /\ resp = NoResponse
    /\ jar = NoJar
    /\ stale = NoToken
    /\ procs = [p \in Procs |-> IdleProc]

\* The server, idle, takes one request at time now and handles it through
\* AuthMiddleware.dispatch; d is what dispatch gives back.
Deliver(rq, d) ==
    /\ req' = rq
    /\ resp' = [d.resp EXCEPT !.store = users]
    /\ users' = d.users
    /\ UNCHANGED <<now, jar, stale, procs>>

Handle(rq) == Deliver(rq, dispatch(rq, users, now))

Me ==
    /\ req = Idle
    /\ \E a \in AccessCookies(now), h \in Headers(now), r \in RefreshCookies(now) :
        Handle(Request("/api/auth/me", a, h, r, NoBody))

Register ==
    /\ req = Idle
    /\ \E a \in AccessCookies(now), h \in Headers(now), r \in RefreshCookies(now),
          b \in RegisterBodies :
        Handle(Request("/api/auth/register", a, h, r, b))

Login ==
    /\ req = Idle
    /\ \E a \in AccessCookies(now), h \in Headers(now), r \in RefreshCookies(now),
          b \in LoginBodies :
        Handle(Request("/api/auth/login", a, h, r, b))

GoogleCallback ==
    /\ req = Idle
    /\ \E a \in AccessCookies(now), h \in Headers(now), r \in RefreshCookies(now),
          b \in GoogleBodies :
        Handle(Request("/api/auth/google/callback", a, h, r, b))

Logout ==
    /\ req = Idle
    /\ \E a \in AccessCookies(now), h \in Headers(now), r \in RefreshCookies(now) :
        Handle(Request("/api/auth/logout", a, h, r, NoBody))

LoginPage ==
    /\ req = Idle
    /\ \E a \in AccessCookies(now), h \in Headers(now), r \in RefreshCookies(now) :
        Handle(Request("/login", a, h, r, NoBody))

\* The response has gone out; the request and its state are discarded.
Complete ==
    /\ req # Idle
    /\ req' = Idle
    /\ resp' = NoResponse
    /\ UNCHANGED <<users, now, jar, stale, procs>>

\* Time passes between requests.
Tick ==
    /\ req = Idle
    /\ now < MaxTime
    /\ now' = now + 1
    /\ UNCHANGED <<users, req, resp, jar, stale, procs>>

Next ==
    \/ Me
    \/ Register
    \/ Login
    \/ GoogleCallback
    \/ Logout
    \/ LoginPage
    \/ Complete
    \/ Tick

Spec == Init /\ [][Next]_vars


\* ---------------------------------------------------- a client with a jar
\* The last Set-Cookie header for `name` in the response (0: none).
LastCookie(r, name) ==
    LET hits == {i \in 1..Len(r.cookies) : r.cookies[i].name = name}
    IN IF hits = {} THEN 0 ELSE CHOOSE i \in hits : \A j \in hits : j <= i

\* The cookie value the client keeps for `name` after the response.
Kept(old, r, name) ==
    IF LastCookie(r, name) = 0 THEN old
    ELSE IF r.cookies[LastCookie(r, name)].max_age = 0 THEN NoToken
    ELSE r.cookies[LastCookie(r, name)].value

\* The jar after the client has taken the response's Set-Cookie headers.
Receive(j, rq, r, t) ==
    LET a == Kept(j.access_token, r, "access_token")
        f == Kept(j.refresh_token, r, "refresh_token")
        i == LastCookie(r, "access_token")
    IN IF ~Truthy(a) /\ ~Truthy(f) THEN NoJar
       ELSE IF i = 0 \/ ~Truthy(a)
       THEN [j EXCEPT !.access_token = a, !.refresh_token = f]
       ELSE [access_token |-> a, refresh_token |-> f, at |-> t,
             by |-> IF r.cookies[i].by = "middleware" THEN "refresh" ELSE rq.path,
             user |-> IF r.cookies[i].by = "middleware" THEN r.state_user
                      ELSE r.body_user,
             since |-> IF r.cookies[i].by = "middleware" /\ Truthy(j.refresh_token)
                       THEN j.since ELSE t]

\* The client sends a request with the cookies of its jar (it may have
\* dropped the access cookie, whose max-age is the shorter).
SessionSend(path, bodies) ==
    \E a \in {jar.access_token, NoToken}, b \in bodies :
        Handle(Request(path, a, NoHeader, jar.refresh_token, b))

SessionMe == req = Idle /\ SessionSend("/api/auth/me", {NoBody})

SessionRegister == req = Idle /\ SessionSend("/api/auth/register", RegisterBodies)

SessionLogin == req = Idle /\ SessionSend("/api/auth/login", LoginBodies)

SessionGoogleCallback ==
    req = Idle /\ SessionSend("/api/auth/google/callback", GoogleBodies)

SessionLogout == req = Idle /\ SessionSend("/api/auth/logout", {NoBody})

\* Someone presents the stale refresh token again, alone.
SessionReplay ==
    /\ req = Idle
    /\ Truthy(stale)
    /\ Handle(Request("/api/auth/me", NoToken, NoHeader, stale, NoBody))

\* The response arrives: the client updates its jar, the request is over.
\* After a renewal the refresh token the request used is the stale one.
SessionComplete ==
    /\ req # Idle
    /\ jar' = Receive(jar, req, resp, now)
    /\ stale' = IF resp.renewed THEN req.refresh_cookie ELSE stale
    /\ req' = Idle
    /\ resp' = NoResponse
    /\ UNCHANGED <<users, now, procs>>

SessionTick ==
    /\ req = Idle
    /\ now < SessionMaxTime
    /\ now' = now + 1
    /\ UNCHANGED <<users, req, resp, jar, stale, procs>>

SessionNext ==
    \/ SessionMe
    \/ SessionRegister
    \/ SessionLogin
    \/ SessionGoogleCallback
    \/ SessionLogout
    \/ SessionReplay
    \/ SessionComplete
    \/ SessionTick

SessionSpec == Init /\ [][SessionNext]_vars

\* ---------------------------------------------- requests handled together
\* dispatch from the return of the service call on: the handler and the
\* response.
conc_proceed(pr, us, t) ==
    IF pr.rq.path = "/api/auth/logout"
    THEN respond(NoneResult, Unset, call_next(pr.rq, Unset, us, t))
    ELSE proceed(pr.rq, pr.user_data, us, t)

Finished(pr, d) == [pr EXCEPT !.pc = "done", !.out = [d.resp EXCEPT !.store = pr.store]]

\* The first free worker.
FreeProc == CHOOSE p \in Procs : procs[p].pc = "idle" /\ \A q \in 1..(p - 1) : procs[q].pc # "idle"

\* A client sends a request with the two cookies of the jar while other
\* requests may be in flight.
ConcSend(path, bodies) ==
    /\ \E p \in Procs : procs[p].pc = "idle"
    /\ \E b \in bodies :
          procs' = [q \in Procs |->
                      IF q = FreeProc
                      THEN Arrived(Request(path, jar.access_token, NoHeader,
                                           jar.refresh_token, b),
                                   users, now, \E r \in Procs : InFlight(procs[r]))
                      ELSE IF InFlight(procs[q])
                      THEN [procs[q] EXCEPT !.concurrent = TRUE]
                      ELSE procs[q]]
    /\ UNCHANGED <<users, now, req, resp, jar, stale>>

ConcMe == ConcSend("/api/auth/me", {NoBody})

ConcRegister == ConcSend("/api/auth/register", {RegisterBody("a", "a@x.com")})

ConcDecodeAccess ==
    \E p \in Procs :
        /\ procs[p].pc = "decode_access"
        /\ procs' = [procs EXCEPT ![p] = decode_access(procs[p], now)]
        /\ UNCHANGED <<users, now, req, resp, jar, stale>>

ConcLookupAccess ==
    \E p \in Procs :
        /\ procs[p].pc = "lookup_access"
        /\ procs' = [procs EXCEPT ![p] = lookup_access(procs[p], users)]
        /\ UNCHANGED <<users, now, req, resp, jar, stale>>

ConcDecodeRefresh ==
    \E p \in Procs :
        /\ procs[p].pc = "decode_refresh"
        /\ procs' = [procs EXCEPT ![p] = decode_refresh(procs, p, now)]
        /\ UNCHANGED <<users, now, req, resp, jar, stale>>

ConcLookupRefresh ==
    \E p \in Procs :
        /\ procs[p].pc = "lookup_refresh"
        /\ procs' = [procs EXCEPT ![p] = lookup_refresh(procs[p], users)]
        /\ UNCHANGED <<users, now, req, resp, jar, stale>>

ConcCreateTokens ==
    \E p \in Procs :
        /\ procs[p].pc = "create_tokens"
        /\ procs' = [procs EXCEPT ![p] = issue_tokens(procs[p], now)]
        /\ UNCHANGED <<users, now, req, resp, jar, stale>>

\* The handler runs and dispatch returns the response.
ConcCallNext ==
    \E p \in Procs :
        /\ procs[p].pc = "call_next"
        /\ procs' = [procs EXCEPT ![p] =
                        Finished(procs[p], conc_proceed(procs[p], users, now))]
        /\ users' = conc_proceed(procs[p], users, now).users
        /\ UNCHANGED <<now, req, resp, jar, stale>>

\* The response arrives: the client keeps its cookies, the request is over.
ConcComplete ==
    \E p \in Procs :
        /\ procs[p].pc = "done"
        /\ jar' = [NoJar EXCEPT
                     !.access_token = Kept(jar.access_token, procs[p].out, "access_token"),
                     !.refresh_token = Kept(jar.refresh_token, procs[p].out, "refresh_token")]
        /\ procs' = [procs EXCEPT ![p] = IdleProc]
        /\ UNCHANGED <<users, now, req, resp, stale>>

\* Time passes, also while requests are in flight.
ConcTick ==
    /\ now < ConcMaxTime
    /\ now' = now + 1
    /\ UNCHANGED <<users, req, resp, jar, stale, procs>>

ConcNext ==
    \/ ConcMe
    \/ ConcRegister
    \/ ConcDecodeAccess
    \/ ConcLookupAccess
    \/ ConcDecodeRefresh
    \/ ConcLookupRefresh
    \/ ConcCreateTokens
    \/ ConcCallNext
    \/ ConcComplete
    \/ ConcTick

ConcSpec == Init /\ [][ConcNext]_vars

\* ------------------------------------------------------- reading a request
Handled == req # Idle

\* A token signed with the service's secret.
Signed(tok) == tok.t = "jwt" /\ tok.key = JWT_SECRET

\* The exp claim of the token, in seconds, is not after time t.
ExpiredAt(tok, t) == tok.exp * TicksPerSecond <= t

\* The subject of the token is the id of a user record.
NamesUser(tok, us) == \E i \in 1..Len(us) : tok.sub = str(us[i].id)

SubjectOf(tok, us) == CHOOSE id \in UserIds(us) : tok.sub = str(id)

\* The access token the middleware reads: the cookie, else the header's.
PresentedAccess(rq) ==
    IF Truthy(rq.access_cookie) THEN rq.access_cookie
    ELSE IF rq.authorization.scheme = "Bearer" THEN rq.authorization.tok
    ELSE NoToken

\* The Set-Cookie headers of the response, by name and by who set them.
CookiesOf(r, name, by) ==
    {i \in 1..Len(r.cookies) : r.cookies[i].name = name /\ r.cookies[i].by = by}

NoMiddlewareCookies(r) == \A i \in 1..Len(r.cookies) : r.cookies[i].by # "middleware"

NoHandlerCookies(r) == \A i \in 1..Len(r.cookies) : r.cookies[i].by # "handler"

\* The handler ran with no identity.
Unauthenticated(r) ==
    /\ r.handler_calls = 1
    /\ r.state_user \in {0, Unset}
    /\ ~r.renewed
    /\ NoMiddlewareCookies(r)

\* The response carries a middleware-set cookie `name` with a signed token for
\* user whose expiry (a second) lies after the second `issued`.
RenewedCookie(r, name, user, issued) ==
    \E i \in CookiesOf(r, name, "middleware") :
        /\ Signed(r.cookies[i].value)
        /\ r.cookies[i].value.sub = str(user)
        /\ r.cookies[i].value.exp > issued

Max(a, b) == IF a >= b THEN a ELSE b

\* The latest second in which the pair of the request's cookies was issued.
PairIssued(rq) ==
    Max(rq.access_cookie.exp - ACCESS_TOKEN_EXPIRE_SECONDS,
        rq.refresh_cookie.exp - REFRESH_TOKEN_EXPIRE_SECONDS)

\* ------------------------------------------------------------------ C1
\* An expired signed access cookie with an unexpired signed refresh cookie of
\* an existing user, on any path but logout.
C1_Case ==
    /\ Handled
    /\ req.path # "/api/auth/logout"
    /\ Signed(req.access_cookie) /\ ExpiredAt(req.access_cookie, now)
    /\ Signed(req.refresh_cookie) /\ ~ExpiredAt(req.refresh_cookie, now)
    /\ NamesUser(req.refresh_cookie, resp.store)

C1_Renewed ==
    /\ resp.state_user = SubjectOf(req.refresh_cookie, resp.store)
    /\ RenewedCookie(resp, "access_token", resp.state_user, PairIssued(req))
    /\ RenewedCookie(resp, "refresh_token", resp.state_user, PairIssued(req))

\* C1: every request to a path other than /api/auth/logout with an expired,
\* signed access_token cookie and an unexpired, signed refresh_token cookie of
\* an existing user is handled with that user as identity, and its response
\* carries a new access_token and a new refresh_token cookie that expire
\* after the original pair was issued.
C1_RenewalOnEveryPath == C1_Case => resp.handler_calls = 1 /\ C1_Renewed

\* The same, for the requests whose handler returned a response.
C1_RenewalWhenHandlerReturns ==
    C1_Case /\ resp.exc = "" => resp.handler_calls = 1 /\ C1_Renewed

C1_Witness == C1_Case /\ resp.exc = "" /\ req.path = "/api/auth/me" /\ C1_Renewed


\* ------------------------------------------------------------------ C2
\* No access_token cookie, an expired signed token in the Authorization:
\* Bearer header, and an unexpired signed refresh cookie of an existing user.
C2_Case ==
    /\ Handled
    /\ ~Truthy(req.access_cookie)
    /\ req.authorization.scheme = "Bearer"
    /\ Signed(req.authorization.tok) /\ ExpiredAt(req.authorization.tok, now)
    /\ Signed(req.refresh_cookie) /\ ~ExpiredAt(req.refresh_cookie, now)
    /\ NamesUser(req.refresh_cookie, resp.store)

\* C2: an expired access token that came in the Authorization header, not in
\* a cookie, never triggers renewal, whatever the refresh cookie: the handler
\* runs with no identity and the middleware adds no cookie.
C2_HeaderTokenNeverRenews == C2_Case => Unauthenticated(resp)

C2_Witness ==
    C2_Case /\ req.path = "/api/auth/me" /\ resp.status = 401
    /\ req.access_cookie = NoToken

\* ------------------------------------------------------------------ C3
\* The middleware reaches refresh_access_token with the refresh cookie:
\* directly (no access token from cookie or header), or after an expired
\* signed access cookie.
C3_RefreshOnly ==
    ~Truthy(PresentedAccess(req)) /\ Truthy(req.refresh_cookie)

C3_AfterExpiredAccess ==
    Signed(req.access_cookie) /\ ExpiredAt(req.access_cookie, now)
    /\ Truthy(req.refresh_cookie)

C3_Case ==
    /\ Handled
    /\ req.path # "/api/auth/logout"
    /\ C3_RefreshOnly \/ C3_AfterExpiredAccess
    /\ req.refresh_cookie.t = "jwt" /\ ExpiredAt(req.refresh_cookie, now)

\* C3: refresh_access_token with an expired refresh token gives no new pair
\* and no user, reached directly or through validate_and_refresh_token; the
\* request goes on unauthenticated.
C3_ExpiredRefreshNeverRenews == C3_Case => Unauthenticated(resp)

C3_WitnessDirect ==
    C3_Case /\ C3_RefreshOnly /\ Signed(req.refresh_cookie)
    /\ NamesUser(req.refresh_cookie, resp.store) /\ resp.status = 401

C3_WitnessViaValidate ==
    C3_Case /\ C3_AfterExpiredAccess /\ Signed(req.refresh_cookie)
    /\ NamesUser(req.refresh_cookie, resp.store) /\ resp.status = 401

C3_Witness == C3_WitnessDirect \/ C3_WitnessViaValidate

\* ------------------------------------------------------------------ C5
\* The access token the middleware validates is a JWT signed with another
\* secret.
C5_Case ==
    /\ Handled
    /\ req.path # "/api/auth/logout"
    /\ PresentedAccess(req).t = "jwt"
    /\ PresentedAccess(req).key # JWT_SECRET

\* C5: validate_and_refresh_token on an access token signed with a secret
\* other than JWT_SECRET gives no user and no new pair, whatever its payload,
\* the refresh token and from_cookie.
C5_WrongSecretIsInvalid == C5_Case => Unauthenticated(resp)

\* A forged access cookie that names an existing user and looks expired, with
\* a valid refresh cookie beside it: still no renewal.
C5_Witness ==
    /\ C5_Case
    /\ Truthy(req.access_cookie)
    /\ NamesUser(req.access_cookie, resp.store)
    /\ ExpiredAt(req.access_cookie, now)
    /\ Signed(req.refresh_cookie) /\ ~ExpiredAt(req.refresh_cookie, now)
    /\ NamesUser(req.refresh_cookie, resp.store)
    /\ resp.status = 401

\* ------------------------------------------------------------------ C6
\* C6: no exception of token extraction, validation, user lookup or refresh
\* escapes AuthMiddleware.dispatch: every request is handed to the handler.
C6_RequestAlwaysReachesHandler == Handled => resp.handler_calls = 1

\* ------------------------------------------------------------------ C8
C8_Case == Handled /\ req.path = "/api/auth/logout"

Deleted(c) == ~Truthy(c.value) /\ c.max_age = 0

\* C8: POST /api/auth/logout succeeds and its final response deletes the
\* access_token and the refresh_token cookie and sets no token cookie,
\* whatever cookies and headers the request carries.
C8_LogoutClearsCookies ==
    C8_Case =>
        /\ resp.status = 200
        /\ resp.exc = ""
        /\ \E i \in 1..Len(resp.cookies) :
              resp.cookies[i].name = "access_token" /\ Deleted(resp.cookies[i])
        /\ \E i \in 1..Len(resp.cookies) :
              resp.cookies[i].name = "refresh_token" /\ Deleted(resp.cookies[i])
        /\ \A i \in 1..Len(resp.cookies) : Deleted(resp.cookies[i])

\* Logout with an expired access cookie and a valid refresh cookie.
C8_Witness ==
    /\ C8_Case
    /\ Signed(req.access_cookie) /\ ExpiredAt(req.access_cookie, now)
    /\ Signed(req.refresh_cookie) /\ ~ExpiredAt(req.refresh_cookie, now)
    /\ NamesUser(req.refresh_cookie, resp.store)
    /\ resp.status = 200

\* ------------------------------------------------------------------ C9
C9_Case ==
    /\ Handled
    /\ req.path = "/api/auth/register"
    /\ \E i \in 1..Len(resp.store) : resp.store[i].email = req.body.email

\* C9: a register request with the email of an existing user is rejected
\* (by the handler with 400; the request fails in any case), leaves the user
\* records as they were, and gets no token cookie from the handler.
C9_DuplicateEmailRejected ==
    C9_Case =>
        /\ resp.status \in {400, 500}
        /\ resp.handler_calls = 1 => resp.status = 400
        /\ resp.body_user = 0
        /\ users = resp.store
        /\ NoHandlerCookies(resp)

C9_Witness == C9_Case /\ resp.status = 400 /\ Len(users) = 1

\* ------------------------------------------------------------------ C10
\* The login handler runs on an email that is unknown, or on a password that
\* does not verify against the stored hash.
C10_Case ==
    /\ Handled
    /\ req.path = "/api/auth/login"
    /\ resp.handler_calls = 1
    /\ \/ \A i \in 1..Len(resp.store) : resp.store[i].email # req.body.email
       \/ \E i \in 1..Len(resp.store) :
            /\ resp.store[i].email = req.body.email
            /\ resp.store[i].hashed_password # hash(req.body.password)

\* C10: a login with an unknown email or a password that does not verify is
\* rejected with 401, creates no tokens, sets no cookie, and leaves the user
\* records as they were.
C10_BadLoginIsUnauthorized ==
    C10_Case =>
        /\ resp.status = 401
        /\ NoHandlerCookies(resp)
        /\ users = resp.store


\* ------------------------------------------------------------------ C4
\* The jar holds a pair that create_tokens made at time jar.at for jar.user.
C4_Case == Truthy(jar.access_token) /\ Truthy(jar.refresh_token) /\ jar.user # 0

\* decode(token) at time t gives back the user the token was issued to.
DecodesTo(tok, user, t) ==
    /\ jwt_decode(tok, JWT_SECRET, t).r = "ok"
    /\ int(jwt_decode(tok, JWT_SECRET, t).sub) = [exc |-> "", val |-> user]

ReportedExpired(tok, t) == jwt_decode(tok, JWT_SECRET, t).r = "ExpiredSignatureError"

\* The token, issued at time `at`, is good strictly before `at + ttl` and
\* expired from then on.
GoodUntilTtl(tok, user, at, ttl, t) ==
    /\ t < at + ttl * TicksPerSecond => DecodesTo(tok, user, t)
    /\ t >= at + ttl * TicksPerSecond => ReportedExpired(tok, t)

\* The token, issued at time `at`, is good strictly before the whole second
\* of `at` plus ttl, and expired from then on.
GoodUntilExp(tok, user, at, ttl, t) ==
    /\ t < (NowSec(at) + ttl) * TicksPerSecond => DecodesTo(tok, user, t)
    /\ t >= (NowSec(at) + ttl) * TicksPerSecond => ReportedExpired(tok, t)

\* C4 as claimed: a token of create_tokens at time t decodes to its subject
\* at every time strictly before t + ttl and is expired at or after t + ttl.
C4_GoodUntilTtl ==
    C4_Case =>
        /\ GoodUntilTtl(jar.access_token, jar.user, jar.at,
                        ACCESS_TOKEN_EXPIRE_SECONDS, now)
        /\ GoodUntilTtl(jar.refresh_token, jar.user, jar.at,
                        REFRESH_TOKEN_EXPIRE_SECONDS, now)

\* C4, amended: a token of create_tokens at time t decodes to its subject at
\* every time strictly before floor(t) + ttl, t's whole second plus the TTL,
\* and is expired at or after it: up to a second earlier than t + ttl.
C4_GoodUntilExp ==
    C4_Case =>
        /\ GoodUntilExp(jar.access_token, jar.user, jar.at,
                        ACCESS_TOKEN_EXPIRE_SECONDS, now)
        /\ GoodUntilExp(jar.refresh_token, jar.user, jar.at,
                        REFRESH_TOKEN_EXPIRE_SECONDS, now)

\* A refresh token of user 2 issued within a second, at its expiry: the
\* second's fraction short of issue time plus TTL.
C4_Witness ==
    /\ C4_Case
    /\ jar.user = 2
    /\ jar.at % TicksPerSecond # 0
    /\ now = (NowSec(jar.at) + REFRESH_TOKEN_EXPIRE_SECONDS) * TicksPerSecond
    /\ ReportedExpired(jar.refresh_token, now)

\* ------------------------------------------------------------------ C7
\* GET /api/auth/me with both cookies of the pair that register issued, no
\* renewal since.
C7_Case ==
    /\ Handled
    /\ req.path = "/api/auth/me"
    /\ jar.by = "/api/auth/register"
    /\ Truthy(jar.access_token) /\ Truthy(jar.refresh_token)
    /\ req.access_cookie = jar.access_token
    /\ req.refresh_cookie = jar.refresh_token

C7_ReturnsUser == resp.status = 200 /\ resp.body_user = jar.user /\ jar.user # 0

C7_NewCookies ==
    /\ RenewedCookie(resp, "access_token", jar.user, NowSec(jar.at))
    /\ RenewedCookie(resp, "refresh_token", jar.user, NowSec(jar.at))

C7_WhileAccessUnexpired ==
    C7_Case /\ ~ExpiredAt(jar.access_token, now) => C7_ReturnsUser

C7_AfterRefreshTtl ==
    C7_Case /\ now >= jar.at + REFRESH_TOKEN_EXPIRE_SECONDS * TicksPerSecond
        => resp.status = 401

C11_Case ==
    Handled /\ req.path = "/api/auth/register" /\ resp.handler_calls = 1

\* The request was refused as a client error and no record was written.
C11_Rejected == resp.status \in 400..499 /\ users = resp.store

\* The request added one local user with the body's name and email and the
\* handler set both token cookies for it.
C11_Created ==
    /\ resp.status = 200
    /\ Len(users) = Len(resp.store) + 1
    /\ SubSeq(users, 1, Len(resp.store)) = resp.store
    /\ users[Len(users)].auth_provider = "local"
    /\ users[Len(users)].email = req.body.email
    /\ users[Len(users)].name = req.body.name
    /\ \E i \in CookiesOf(resp, "access_token", "handler") :
          Signed(resp.cookies[i].value)
          /\ resp.cookies[i].value.sub = str(users[Len(users)].id)
    /\ \E i \in CookiesOf(resp, "refresh_token", "handler") :
          Signed(resp.cookies[i].value)
          /\ resp.cookies[i].value.sub = str(users[Len(users)].id)

\* C11: every register request is either rejected as a client error with the
\* user records unchanged, or creates exactly one local user and sets both
\* token cookies for it; one whose email is not yet present creates the user.
C11_RegisterOutcome ==
    C11_Case =>
        /\ C11_Rejected \/ C11_Created
        /\ (\A i \in 1..Len(resp.store) : resp.store[i].email # req.body.email)
              => C11_Created

\* The part of C11 the unique indexes of the users table keep: no two user
\* records share an email or a name.
C11_UniqueUsers ==
    \A i, j \in 1..Len(users) :
        i # j => users[i].email # users[j].email /\ users[i].name # users[j].name

\* ------------------------------------------------------------------ C12
\* The response carries token cookies: a handler (register, login, the OAuth
\* callback) or the middleware's refresh issued tokens.
C12_Case ==
    /\ Handled
    /\ \E i \in 1..Len(resp.cookies) : Truthy(resp.cookies[i].value)

\* Cookie i of the response has its counterpart `other`: a signed token with
\* the same subject, set by the same operation.
Paired(r, i, other) ==
    \E j \in 1..Len(r.cookies) :
        /\ r.cookies[j].name = other
        /\ r.cookies[j].by = r.cookies[i].by
        /\ Signed(r.cookies[j].value)
        /\ r.cookies[j].value.sub = r.cookies[i].value.sub

\* C12: every operation that issues tokens issues an access token and a
\* refresh token together, with the same subject: no response carries an
\* issued access token without a refresh token of the same subject issued by
\* the same operation, nor a refresh token without such an access token.
C12_TokensIssuedInPairs ==
    C12_Case =>
        \A i \in 1..Len(resp.cookies) :
            Truthy(resp.cookies[i].value) =>
                /\ Signed(resp.cookies[i].value)
                /\ resp.cookies[i].name = "access_token"
                      => Paired(resp, i, "refresh_token")
                /\ resp.cookies[i].name = "refresh_token"
                      => Paired(resp, i, "access_token")

\* A login of one user on a request the middleware renewed for another: two
\* pairs in one response.
C12_Witness ==
    /\ C12_Case
    /\ req.path = "/api/auth/login"
    /\ CookiesOf(resp, "access_token", "handler") # {}
    /\ \E i \in CookiesOf(resp, "access_token", "middleware") :
          resp.cookies[i].value.sub # str(resp.body_user)

\* ------------------------------------------------------------------ C13
\* A signed, unexpired token whose subject is the id of no user record.
NamesNoUser(tok, us, t) ==
    /\ Signed(tok) /\ ~ExpiredAt(tok, t)
    /\ int(tok.sub).exc = ""
    /\ int(tok.sub).val \notin UserIds(us)

\* validate_and_refresh_token gets such an access token.
C13_ValidateCase ==
    /\ Handled
    /\ req.path # "/api/auth/logout"
    /\ NamesNoUser(PresentedAccess(req), resp.store, now)

\* refresh_access_token gets such a refresh token.
C13_RefreshCase ==
    /\ Handled
    /\ req.path # "/api/auth/logout"
    /\ C3_RefreshOnly \/ C3_AfterExpiredAccess
    /\ NamesNoUser(req.refresh_cookie, resp.store, now)

\* C13: a correctly signed, unexpired token (the access token in validate,
\* the refresh token in refresh) whose subject is the id of no user record is
\* an authentication failure: no user, no new pair, no exception out of the
\* service, and the handler runs with no identity.
C13_UnknownSubjectIsUnauthenticated ==
    C13_ValidateCase \/ C13_RefreshCase => Unauthenticated(resp)

\* Such an access cookie beside a valid refresh cookie of an existing user.
C13_WitnessValidate ==
    /\ C13_ValidateCase
    /\ Truthy(req.access_cookie)
    /\ Signed(req.refresh_cookie) /\ ~ExpiredAt(req.refresh_cookie, now)
    /\ NamesUser(req.refresh_cookie, resp.store)
    /\ Len(resp.store) = 1
    /\ req.path = "/api/auth/me" /\ resp.status = 401

\* Such a refresh cookie after an expired access cookie of an existing user.
C13_WitnessRefresh ==
    /\ C13_RefreshCase
    /\ C3_AfterExpiredAccess
    /\ NamesUser(req.access_cookie, resp.store)
    /\ Len(resp.store) = 1
    /\ req.path = "/api/auth/me" /\ resp.status = 401

C13_Witness == C13_WitnessValidate \/ C13_WitnessRefresh

\* ------------------------------------------------------------------ C14
\* The token is signed with the service secret, unexpired at time t, and its
\* subject is the id of user u.
ValidFor(tok, u, t) ==
    /\ Signed(tok) /\ ~ExpiredAt(tok, t)
    /\ int(tok.sub) = [exc |-> "", val |-> u]

\* The handler ran and saw a user as the request's identity.
C14_Case == Handled /\ resp.handler_calls = 1 /\ resp.state_user \notin {0, Unset}

\* The identity came from the access token the request presented.
C14_ByAccess == ValidFor(PresentedAccess(req), resp.state_user, now)

\* The identity came from the refresh cookie, in a renewal: there was no
\* access token, or the access cookie was signed and expired.
C14_ByRefresh ==
    /\ C3_RefreshOnly \/ C3_AfterExpiredAccess
    /\ ValidFor(req.refresh_cookie, resp.state_user, now)

\* C14: the identity the handler sees is a user U only if the request
\* presented a token signed with the service secret, unexpired at the time of
\* the check, whose subject is U's id: the access token, or the refresh
\* cookie when renewal happened. U is a user record, the identity is fixed
\* before the handler runs, and the logout route sees none.
C14_AuthenticationSound ==
    /\ C14_Case =>
          /\ resp.state_user \in UserIds(resp.store)
          /\ C14_ByAccess \/ C14_ByRefresh
          /\ resp.renewed => C14_ByRefresh
          /\ req.path # "/api/auth/logout"
    /\ Handled /\ resp.handler_calls = 1 /\ req.path = "/api/auth/me"
          => resp.body_user = (IF resp.state_user = Unset THEN 0 ELSE resp.state_user)

\* /me answered for user 1, of two, on a valid access token from the header.
C14_Witness ==
    /\ C14_Case
    /\ req.path = "/api/auth/me"
    /\ resp.body_user = 1
    /\ ~Truthy(req.access_cookie)
    /\ C14_ByAccess
    /\ Len(resp.store) = 2

\* ------------------------------------------------------------------ C15
\* The access token the middleware validates fails for a reason other than
\* expiry: it is no JWT, it is signed with another key, or it is good and
\* names no user record.
C15_Case ==
    /\ Handled
    /\ req.path # "/api/auth/logout"
    /\ Truthy(PresentedAccess(req))
    /\ \/ PresentedAccess(req).t # "jwt"
       \/ PresentedAccess(req).key # JWT_SECRET
       \/ NamesNoUser(PresentedAccess(req), resp.store, now)

C16_Case ==
    /\ Handled
    /\ req.path # "/api/auth/logout"
    /\ ~Truthy(PresentedAccess(req))
    /\ Signed(req.refresh_cookie) /\ ~ExpiredAt(req.refresh_cookie, now)
    /\ NamesUser(req.refresh_cookie, resp.store)

\* Neither an access token nor a refresh cookie.
C16_NoTokens ==
    /\ Handled
    /\ req.path # "/api/auth/logout"
    /\ ~Truthy(PresentedAccess(req))
    /\ ~Truthy(req.refresh_cookie)

\* The handler saw the refresh cookie's user and the response carries a new
\* access and a new refresh cookie for it, issued now.
C16_Renewed ==
    /\ resp.handler_calls = 1
    /\ resp.state_user = SubjectOf(req.refresh_cookie, resp.store)
    /\ RenewedCookie(resp, "access_token", resp.state_user, NowSec(now))
    /\ RenewedCookie(resp, "refresh_token", resp.state_user, NowSec(now))

\* C16: a request with no access token from either source and a valid
\* refresh cookie of an existing user is refreshed directly: the handler sees
\* that user and the response carries a new access and a new refresh cookie;
\* with neither token the request is unauthenticated.
C16_RefreshOnlyRenews ==
    /\ C16_Case => C16_Renewed
    /\ C16_NoTokens => Unauthenticated(resp)

\* The same, for the requests whose handler returned a response.
C16_RefreshOnlyWhenHandlerReturns ==
    /\ C16_Case /\ resp.exc = "" => C16_Renewed
    /\ C16_NoTokens => Unauthenticated(resp)

\* A refresh-only /me, renewed.
C16_Witness ==
    C16_Case /\ req.path = "/api/auth/me" /\ resp.status = 200 /\ C16_Renewed

\* ------------------------------------------------------------------ C17
\* A request with an access_token cookie and an Authorization: Bearer header.
C17_Case ==
    /\ Handled
    /\ req.path # "/api/auth/logout"
    /\ Truthy(req.access_cookie)
    /\ req.authorization.scheme = "Bearer"

\* The access cookie is no good token, the header's token is valid for a user.
C17_BadCookieGoodHeader ==
    /\ C17_Case
    /\ req.access_cookie.t # "jwt" \/ req.access_cookie.key # JWT_SECRET
    /\ \E u \in UserIds(resp.store) : ValidFor(req.authorization.tok, u, now)

\* The request as it is without its Authorization header.
WithoutHeader(rq) == [rq EXCEPT !.authorization = NoHeader]

\* C17: the Authorization: Bearer header is consulted only when the
\* access_token cookie is absent or empty. With the cookie present the
\* request is handled exactly as it is without the header, so an invalid
\* cookie beside a valid header token is unauthenticated; and with no
\* refresh_token cookie nothing is renewed, whatever the header holds.
C17_CookieBeforeHeader ==
    /\ C17_Case =>
          /\ [resp EXCEPT !.store = <<>>]
                = dispatch(WithoutHeader(req), resp.store, now).resp
          /\ users = dispatch(WithoutHeader(req), resp.store, now).users
    /\ C17_BadCookieGoodHeader => Unauthenticated(resp)
    /\ Handled /\ ~Truthy(req.refresh_cookie)
          => ~resp.renewed /\ NoMiddlewareCookies(resp)

\* /me refused on a forged cookie although the header's token is valid.
C17_Witness ==
    /\ C17_BadCookieGoodHeader
    /\ req.access_cookie.t = "jwt"
    /\ req.path = "/api/auth/me" /\ resp.status = 401

\* ------------------------------------------------------------------ C18
\* The response carries a pair that create_tokens made for the user at the
\* time of the request, set by the middleware.
FreshPair(r, user, t) ==
    /\ \E i \in CookiesOf(r, "access_token", "middleware") :
          r.cookies[i].value = create_tokens(user, t).access_token
    /\ \E i \in CookiesOf(r, "refresh_token", "middleware") :
          r.cookies[i].value = create_tokens(user, t).refresh_token

\* A refresh token that an earlier renewal used is presented again, alone,
\* before its expiry.
C18_Case ==
    /\ Handled
    /\ Truthy(stale)
    /\ req.refresh_cookie = stale
    /\ req.access_cookie = NoToken
    /\ req.path = "/api/auth/me"
    /\ ~ExpiredAt(stale, now)

\* C18: a successful refresh gives a newly issued access token and a newly
\* issued refresh token, and does not revoke the refresh token it used:
\* presenting that token again in any later request before its own expiry
\* succeeds again, with another newly issued pair for the same user.
C18_UsedRefreshTokenStillWorks ==
    /\ Handled /\ resp.renewed => FreshPair(resp, resp.state_user, now)
    /\ C18_Case =>
          /\ resp.status = 200
          /\ resp.renewed
          /\ ValidFor(stale, resp.state_user, now)
          /\ resp.body_user = resp.state_user
          /\ FreshPair(resp, resp.state_user, now)

\* The replay succeeds at a later time than the renewal that used the token,
\* when the client's jar holds the refresh token that replaced it.
C18_Witness ==
    /\ C18_Case
    /\ resp.status = 200
    /\ Truthy(jar.refresh_token) /\ jar.refresh_token # stale
    /\ jar.by = "refresh" /\ jar.at < now

\* ------------------------------------------------------------------ C20
\* The request's tokens make the middleware renew: the refresh cookie is
\* valid for a user record and there is no access token, or the access cookie
\* is signed and expired.
RenewalDue(rq, us, t) ==
    /\ rq.path # "/api/auth/logout"
    /\ \/ ~Truthy(PresentedAccess(rq))
       \/ Signed(rq.access_cookie) /\ ExpiredAt(rq.access_cookie, t)
    /\ Signed(rq.refresh_cookie) /\ ~ExpiredAt(rq.refresh_cookie, t)
    /\ NamesUser(rq.refresh_cookie, us)

\* The middleware's two cookies are on the response, after every cookie the
\* handler set.
CookiesAttachedLast(r) ==
    /\ CookiesOf(r, "access_token", "middleware") # {}
    /\ CookiesOf(r, "refresh_token", "middleware") # {}
    /\ \A i, j \in 1..Len(r.cookies) :
          r.cookies[i].by = "handler" /\ r.cookies[j].by = "middleware" => i < j

C20_Outcome ==
    /\ resp.handler_calls = 1
    /\ resp.exc = ""
    /\ RenewalDue(req, resp.store, now) => resp.renewed /\ CookiesAttachedLast(resp)
    /\ ~RenewalDue(req, resp.store, now) => ~resp.renewed /\ NoMiddlewareCookies(resp)

\* C20: on every path through AuthMiddleware.dispatch the handler is invoked
\* exactly once and a response is returned; after a renewal the new access
\* and refresh cookies are attached to the handler's response, after the
\* handler has returned; without a renewal the middleware adds no cookie.
C20_HandlerOnceThenCookies == Handled => C20_Outcome

\* The same, for the requests on which no exception left dispatch.
C20_WhenNothingRaises == Handled /\ resp.exc = "" => C20_Outcome

\* A login on a renewed request: the handler's pair, then the middleware's.
C20_Witness ==
    /\ Handled /\ req.path = "/api/auth/login"
    /\ RenewalDue(req, resp.store, now)
    /\ Len(resp.cookies) = 4
    /\ C20_Outcome

\* ------------------------------------------------------------------ C19
\* What the service call of the request gives when the request runs alone,
\* on the user records and at the time of its arrival.
Alone(pr) ==
    authenticate(IF Truthy(pr.rq.access_cookie) THEN pr.rq.access_cookie
                 ELSE get_header_token(pr.rq),
                 pr.rq.refresh_cookie, Truthy(pr.rq.access_cookie), pr.store, pr.t0)

\* The request has its response, another request was in flight during it, and
\* the clock read the same at each of its steps.
C19_Case(pr) == pr.pc = "done" /\ pr.concurrent /\ pr.t0 = now

\* The request carried an expired access cookie and a refresh cookie valid for
\* a user, and nothing raised.
C19_RenewalCase(pr) ==
    /\ C19_Case(pr)
    /\ Signed(pr.rq.access_cookie) /\ ExpiredAt(pr.rq.access_cookie, pr.t0)
    /\ RenewalDue(pr.rq, pr.store, pr.t0)
    /\ pr.out.exc = ""

\* The response carries a newly issued pair that is valid for the user.
C19_Renewed(pr) ==
    /\ pr.out.handler_calls = 1
    /\ pr.out.state_user = SubjectOf(pr.rq.refresh_cookie, pr.store)
    /\ FreshPair(pr.out, pr.out.state_user, now)
    /\ \A i \in 1..Len(pr.out.cookies) :
          pr.out.cookies[i].by = "middleware"
             => ValidFor(pr.out.cookies[i].value, pr.out.state_user, now)

\* C19: under every interleaving of the validation, user lookup and refresh
\* steps of concurrent requests, each request resolves the identity and makes
\* the renew/no-renew decision it would alone; concurrent requests with the
\* same expired access cookie and valid refresh cookie each authenticate and
\* each receive a valid new pair.
C19_ConcurrentAsAlone ==
    \A p \in Procs :
        /\ C19_Case(procs[p]) =>
              /\ procs[p].user_data = Alone(procs[p])
              /\ procs[p].out.handler_calls = 1
                    => procs[p].out.state_user = state_user_of(Alone(procs[p]))
              /\ procs[p].out.exc = ""
                    => procs[p].out.renewed = Truthy(Alone(procs[p]).new_access_token)
        /\ C19_RenewalCase(procs[p]) => C19_Renewed(procs[p])

\* Two /me requests in flight together with the same expired access cookie
\* and valid refresh cookie, both answered 200 with a new pair.
C19_Witness ==
    /\ \A p \in {1, 2} :
          /\ C19_RenewalCase(procs[p])
          /\ procs[p].rq.path = "/api/auth/me"
          /\ procs[p].out.status = 200
          /\ C19_Renewed(procs[p])
    /\ procs[1].rq = procs[2].rq

\* ------------------------------------------------------------------ C21
\* A login or register request succeeded for a user.
C21_Case ==
    /\ Handled
    /\ req.path \in {"/api/auth/login", "/api/auth/register"}
    /\ resp.status = 200
    /\ resp.body_user # 0

\* The last Set-Cookie header for `name` carries a signed token of the user.
LastCookieIsFor(r, name, user) ==
    /\ LastCookie(r, name) # 0
    /\ Signed(r.cookies[LastCookie(r, name)].value)
    /\ r.cookies[LastCookie(r, name)].value.sub = str(user)

\* C21: after a successful login or register the last access_token and the
\* last refresh_token cookie set on the final response carry the subject of
\* the user who logged in or registered, whatever token cookies the request
\* carried.
C21_LastCookiesAreTheNewUsers ==
    C21_Case =>
        /\ LastCookieIsFor(resp, "access_token", resp.body_user)
        /\ LastCookieIsFor(resp, "refresh_token", resp.body_user)

\* The same, for the requests the middleware did not renew.
C21_WhenNotRenewed ==
    C21_Case /\ ~resp.renewed =>
        /\ LastCookieIsFor(resp, "access_token", resp.body_user)
        /\ LastCookieIsFor(resp, "refresh_token", resp.body_user)

\* ------------------------------------------------------------------ C22
\* A request of the client that presents the cookies of its jar (the access
\* cookie, or none once the browser has dropped it), on any route but logout.
C22_Case ==
    /\ Handled
    /\ req.path # "/api/auth/logout"
    /\ Truthy(jar.refresh_token)
    /\ req.refresh_cookie = jar.refresh_token
    /\ req.access_cookie \in {jar.access_token, NoToken}
    /\ req.authorization = NoHeader

\* The handler ran with the user of the jar's tokens as identity.
C22_Authenticated ==
    /\ resp.handler_calls = 1
    /\ resp.state_user # 0
    /\ int(jar.refresh_token.sub) = [exc |-> "", val |-> resp.state_user]

\* C22 as claimed: a client that presents its latest cookies within the
\* refresh TTL after their issuance is authenticated on every request,
\* however long ago the session began.
C22_SlidingSession ==
    C22_Case /\ now < jar.at + REFRESH_TOKEN_EXPIRE_SECONDS * TicksPerSecond
        => C22_Authenticated

\* C22, amended: the window after an issuance ends at the refresh token's
\* expiry, the whole second of the issuance plus the refresh TTL (up to a
\* second before the refresh TTL has elapsed); a client that presents its
\* latest cookies before then is authenticated on every request, however
\* long ago the session began.
C22_SlidingSessionToExpiry ==
    C22_Case /\ now < (NowSec(jar.at) + REFRESH_TOKEN_EXPIRE_SECONDS) * TicksPerSecond
        => C22_Authenticated

\* A request authenticated when more than the refresh TTL has passed since
\* the session began, on tokens from a renewal.
C22_Witness ==
    /\ C22_Case
    /\ C22_Authenticated
    /\ jar.by = "refresh"
    /\ now > jar.since + REFRESH_TOKEN_EXPIRE_SECONDS * TicksPerSecond
    /\ req.path = "/api/auth/me" /\ resp.status = 200

====
